---- MODULE Spec2Model ----
(***************************************************************************)
(* A model of ai-switch: the helpers of src/core.ts (tool catalog, config   *)
(* loader, installer selection, pass-through split, shell quoting) and the  *)
(* command flow of src/index.ts (use / yolo).                               *)
(*                                                                          *)
(* Representation.  A string that the code inspects character by character  *)
(* (tool names, argv words, flags) is a sequence of one-character strings:  *)
(* "codex" is <<"c","o","d","e","x">>.  Fixed text that the code only       *)
(* passes along (installer labels and commands, log text) is a TLA+ string. *)
(* A dynamically typed JavaScript value is a record tagged by its typeof:   *)
(* [t |-> "string", v |-> chars], [t |-> "undefined"], [t |-> "null"], ...  *)
(* A JavaScript object with optional keys is a function whose DOMAIN is the *)
(* set of keys it has.                                                      *)
(***************************************************************************)
EXTENDS Integers, Sequences, FiniteSets, TLC

VARIABLES
    host,     \* the machine: [platform, wslEnv, procVersion]
    file,     \* the state of <cwd>/.ai-switch.json
    fn,       \* direct call of an export of core.ts: the function called
    input,    \* ... its arguments
    output,   \* ... what it returned (Pending before the call)
    logged,   \* the warnings the logger (the console, in the CLI) received
    \* one run of the CLI (index.ts)
    pc,       \* where the run is: idle, start, pick, ensure, prompt, install,
              \* launch, running (the tool runs), done (returned),
              \* exited (process.exit), crashed
    processArgv, \* process.argv
    opts,     \* what commander hands the action: [command, toolInput, dryRun]
    onPath,   \* whether which() finds the tool's binary on PATH
    config,   \* the object loadConfig returned
    toolKey,  \* the resolved tool key
    promptChoices, \* the installer prompt's choices
    install,  \* the installer command the user picked
    cmdline,  \* what launch built: [bin, args, text], Pending before
    executed, \* the external commands run so far, in order
    exitCode  \* the exit code of the process, -1 while it runs

cliVars == <<pc, processArgv, opts, onPath, config, toolKey, promptChoices, install,
             cmdline, executed, exitCode>>

vars == <<host, file, fn, input, output, logged, cliVars>>

\* ------------------------------------------------------------ JS values

Undefined == [t |-> "undefined"]
Null      == [t |-> "null"]
Str(s)    == [t |-> "string", v |-> s]
Num(n)    == [t |-> "number", v |-> n]
Bool(b)   == [t |-> "boolean", v |-> b]
Arr(a)    == [t |-> "array", v |-> a]
Obj(o)    == [t |-> "object", v |-> o]

\* typeof x === "string"
IsString(x) == x.t = "string"

\* JavaScript truthiness (ToBoolean)
Truthy(x) ==
    CASE x.t = "undefined" -> FALSE
      [] x.t = "null"      -> FALSE
      [] x.t = "string"    -> x.v # <<>>
      [] x.t = "number"    -> x.v # 0
      [] x.t = "boolean"   -> x.v
      [] OTHER             -> TRUE

\* The value of a call that has not returned yet.
Pending == [t |-> "pending"]

\* ------------------------------------------------------------ characters

UpperChars == <<"A","B","C","D","E","F","G","H","I","J","K","L","M",
                "N","O","P","Q","R","S","T","U","V","W","X","Y","Z">>
LowerChars == <<"a","b","c","d","e","f","g","h","i","j","k","l","m",
                "n","o","p","q","r","s","t","u","v","w","x","y","z">>
DigitChars == <<"0","1","2","3","4","5","6","7","8","9">>

Range(s) == {s[i] : i \in DOMAIN s}

\* String.prototype.toLowerCase on one ASCII character
LowerChar(c) ==
    IF \E i \in DOMAIN UpperChars : UpperChars[i] = c
    THEN LowerChars[CHOOSE i \in DOMAIN UpperChars : UpperChars[i] = c]
    ELSE c

toLowerCase(s) == [i \in DOMAIN s |-> LowerChar(s[i])]

UpperChar(c) ==
    IF \E i \in DOMAIN LowerChars : LowerChars[i] = c
    THEN UpperChars[CHOOSE i \in DOMAIN LowerChars : LowerChars[i] = c]
    ELSE c

\* ------------------------------------------------------------ the catalog

codexKey  == <<"c","o","d","e","x">>
claudeKey == <<"c","l","a","u","d","e">>
geminiKey == <<"g","e","m","i","n","i">>

\* "--yolo"
flagYolo == <<"-","-","y","o","l","o">>
\* "--dangerously-bypass-approvals-and-sandbox"
flagBypass == <<"-","-","d","a","n","g","e","r","o","u","s","l","y","-",
                "b","y","p","a","s","s","-","a","p","p","r","o","v","a","l","s","-",
                "a","n","d","-","s","a","n","d","b","o","x">>
\* "--dangerously-skip-permissions"
flagSkip == <<"-","-","d","a","n","g","e","r","o","u","s","l","y","-",
              "s","k","i","p","-","p","e","r","m","i","s","s","i","o","n","s">>
\* "--yolomode"
flagYolomode == <<"-","-","y","o","l","o","m","o","d","e">>

\* An installer with no platforms key, and one with it.
Installer(label, cmd) == [label |-> label, cmd |-> cmd]
InstallerOn(label, cmd, platforms) ==
    [label |-> label, cmd |-> cmd, platforms |-> platforms]

codexDef ==
    [bin |-> codexKey, pretty |-> "OpenAI Codex CLI",
     installers |-> << Installer("npm", "npm install -g @openai/codex"),
                       InstallerOn("brew", "brew install codex", <<"darwin">>) >>,
     yoloFlags |-> <<flagYolo, flagBypass>>]

claudeDef ==
    [bin |-> claudeKey, pretty |-> "Anthropic Claude Code",
     installers |-> << Installer("npm", "npm install -g @anthropic-ai/claude-code"),
                       InstallerOn("brew", "brew install --cask claude-code", <<"darwin">>) >>,
     yoloFlags |-> <<flagSkip>>]

geminiDef ==
    [bin |-> geminiKey, pretty |-> "Google Gemini CLI",
     installers |-> << Installer("npm", "npm install -g @google/gemini-cli"),
                       InstallerOn("brew", "brew install gemini-cli", <<"darwin">>) >>,
     yoloFlags |-> <<flagYolomode, flagYolo>>]

\* The own keys of the TOOLS object.
ToolKeys == {codexKey, claudeKey, geminiKey}

\* TOOLS is an ordinary object literal, so its prototype is Object.prototype.
\* These are the property names it inherits (ECMAScript, Object.prototype).
ObjectPrototypeKeys ==
    { <<"c","o","n","s","t","r","u","c","t","o","r">>,
      <<"_","_","p","r","o","t","o","_","_">>,
      <<"t","o","S","t","r","i","n","g">>,
      <<"v","a","l","u","e","O","f">>,
      <<"h","a","s","O","w","n","P","r","o","p","e","r","t","y">>,
      <<"i","s","P","r","o","t","o","t","y","p","e","O","f">>,
      <<"t","o","L","o","c","a","l","e","S","t","r","i","n","g">>,
      <<"p","r","o","p","e","r","t","y","I","s","E","n","u","m","e","r","a","b","l","e">>,
      <<"_","_","d","e","f","i","n","e","G","e","t","t","e","r","_","_">>,
      <<"_","_","d","e","f","i","n","e","S","e","t","t","e","r","_","_">>,
      <<"_","_","l","o","o","k","u","p","G","e","t","t","e","r","_","_">>,
      <<"_","_","l","o","o","k","u","p","S","e","t","t","e","r","_","_">> }

\* key in TOOLS: the in operator looks through the prototype chain.
InTools(key) == key \in ToolKeys \/ key \in ObjectPrototypeKeys

\* TOOLS[key]: a catalog definition for an own key; for an inherited name, a
\* built-in (Object, Object.prototype, a method) that has none of the
\* properties bin, pretty, installers, yoloFlags: the object with no keys.
TOOLS(key) ==
    CASE key = codexKey  -> codexDef
      [] key = claudeKey -> claudeDef
      [] key = geminiKey -> geminiDef
      [] OTHER           -> <<>>

getToolDefinition(key) == TOOLS(key)

\* normalizeToolKey(value?: string | null): ToolKey | undefined
normalizeToolKey(value) ==
    IF ~Truthy(value) THEN Undefined
    ELSE LET key == toLowerCase(value.v)
         IN  IF InTools(key) THEN Str(key) ELSE Undefined

hasTool(key) == normalizeToolKey(Str(key)) # Undefined

\* ------------------------------------------------------------ shell quoting

\* SAFE_CHARS = /^[A-Za-z0-9._@%+=:,\/-]+$/
SafeCharSet ==
    Range(UpperChars) \cup Range(LowerChars) \cup Range(DigitChars)
        \cup {".", "_", "@", "%", "+", "=", ":", ",", "/", "-"}

SAFE_CHARS(arg) == arg # <<>> /\ \A i \in DOMAIN arg : arg[i] \in SafeCharSet

\* The second argument of arg.replace in quoteArg is the double-quoted
\* literal "'\''".  In a JavaScript string literal the escape \' denotes the
\* single quote itself, so the literal is the three-character string '''.
QuoteReplacement == <<"'", "'", "'">>

\* arg.replace(/'/g, QuoteReplacement)
RECURSIVE ReplaceQuotes(_)
ReplaceQuotes(s) ==
    IF s = <<>> THEN <<>>
    ELSE (IF Head(s) = "'" THEN QuoteReplacement ELSE <<Head(s)>>)
             \o ReplaceQuotes(Tail(s))

quoteArg(arg) ==
    IF arg = <<>> THEN <<"'", "'">>
    ELSE IF SAFE_CHARS(arg) THEN arg
    ELSE <<"'">> \o ReplaceQuotes(arg) \o <<"'">>

\* Array.prototype.join(" ")
RECURSIVE JoinSpace(_)
JoinSpace(words) ==
    IF words = <<>> THEN <<>>
    ELSE IF Len(words) = 1 THEN words[1]
    ELSE words[1] \o <<" ">> \o JoinSpace(Tail(words))

formatShellCommand(command, args) ==
    LET tokens == <<command>> \o args
    IN  JoinSpace([i \in DOMAIN tokens |-> quoteArg(tokens[i])])

\* ------------------------------------------------------------ bounded inputs

\* All sequences over S of length at most n.
SeqsUpTo(S, n) == UNION {[1..k -> S] : k \in 0..n}

\* ------------------------------------------------------------ direct calls

\* The environment and the logger are untouched by a call that uses neither.
\* No CLI run is in progress.
CliIdle ==
    /\ pc = "idle"
    /\ processArgv = <<>>
    /\ opts = <<>>
    /\ onPath = FALSE
    /\ config = <<>>
    /\ toolKey = <<>>
    /\ promptChoices = <<>>
    /\ install = ""
    /\ cmdline = Pending
    /\ executed = <<>>
    /\ exitCode = -1

Idle == /\ host = [platform |-> "linux", wslEnv |-> FALSE, procVersion |-> "linux"]
        /\ file = [state |-> "absent"]
        /\ logged = <<>>
        /\ CliIdle

\* --- formatShellCommand

MaxTokenLen == 2
MaxArgs == 2
TokenAlphabet == {"a", "'", " "}
Tokens == SeqsUpTo(TokenAlphabet, MaxTokenLen)

InitFormat ==
    /\ Idle
    /\ fn = "formatShellCommand"
    /\ \E c \in Tokens, a \in SeqsUpTo(Tokens, MaxArgs) :
           input = [command |-> c, args |-> a]
    /\ output = Pending

CallFormatShellCommand ==
    /\ fn = "formatShellCommand"
    /\ output = Pending
    /\ output' = Str(formatShellCommand(input.command, input.args))
    /\ UNCHANGED <<host, file, fn, input, logged, cliVars>>

SpecFormat == InitFormat /\ [][CallFormatShellCommand]_vars

\* C1: formatShellCommand emits, for every token that is empty or has a
\* character outside the safe class, a single quote, the token with every
\* single quote replaced by the four characters quote-backslash-quote-quote,
\* and a closing single quote; a non-empty safe token is emitted unchanged;
\* the words are joined by exactly one space in input order.
RECURSIVE C1_Escaped(_)
C1_Escaped(s) ==
    IF s = <<>> THEN <<>>
    ELSE (IF Head(s) = "'" THEN <<"'", "\\", "'", "'">> ELSE <<Head(s)>>)
             \o C1_Escaped(Tail(s))

C1_IsSafe(token) ==
    token # <<>> /\ \A i \in DOMAIN token : token[i] \in SafeCharSet

C1_Word(token) ==
    IF C1_IsSafe(token) THEN token
    ELSE <<"'">> \o C1_Escaped(token) \o <<"'">>

\* Where the i-th word starts in the output: after the earlier words and one
\* space for each of them.
RECURSIVE C1_Offset(_, _)
C1_Offset(tokens, i) ==
    IF i = 1 THEN 0
    ELSE C1_Offset(tokens, i - 1) + Len(C1_Word(tokens[i - 1])) + 1

C1_Claim(tokens, out) ==
    LET n == Len(tokens)
    IN  /\ Len(out) = C1_Offset(tokens, n) + Len(C1_Word(tokens[n]))
        /\ \A i \in 1..n :
               /\ SubSeq(out, C1_Offset(tokens, i) + 1,
                         C1_Offset(tokens, i) + Len(C1_Word(tokens[i])))
                      = C1_Word(tokens[i])
               /\ i > 1 => out[C1_Offset(tokens, i)] = " "

C1_QuotedWithBackslashEscape ==
    (fn = "formatShellCommand" /\ output # Pending)
        => C1_Claim(<<input.command>> \o input.args, output.v)

\* --- normalizeToolKey

CaseVariants(key) ==
    { [i \in DOMAIN key |-> IF i \in S THEN UpperChar(key[i]) ELSE key[i]] :
          S \in SUBSET DOMAIN key }

\* Names that are not catalog keys.
OtherNames ==
    { <<>>, <<"c","u","r","s","o","r">>, <<"c","o","d","e">>,
      <<"c","o","d","e","x","x">>, <<" ","c","o","d","e","x">>,
      <<"C","O","N","S","T","R","U","C","T","O","R">> }
        \cup ObjectPrototypeKeys

RawKeys ==
    {Undefined, Null}
        \cup {Str(s) : s \in UNION {CaseVariants(k) : k \in ToolKeys} \cup OtherNames}

InitNormalize ==
    /\ Idle
    /\ fn = "normalizeToolKey"
    /\ input \in RawKeys
    /\ output = Pending

CallNormalizeToolKey ==
    /\ fn = "normalizeToolKey"
    /\ output = Pending
    /\ output' = normalizeToolKey(input)
    /\ UNCHANGED <<host, file, fn, input, logged, cliVars>>

SpecNormalize == InitNormalize /\ [][CallNormalizeToolKey]_vars

\* raw is key up to the case of its letters.
C2_SameUpToCase(raw, key) ==
    /\ Len(raw) = Len(key)
    /\ \A i \in DOMAIN key : raw[i] = key[i] \/ raw[i] = UpperChar(key[i])

\* C2: normalizeToolKey returns a value only when the lower-cased input is one
\* of the three catalog keys codex, claude, gemini, and then exactly that
\* lowercase key; for absent, null, empty input and every other string
\* (names of inherited object properties included) it returns nothing.
C2_OnlyCatalogKeys ==
    (fn = "normalizeToolKey" /\ output # Pending) =>
        IF input.t = "string" /\ \E k \in ToolKeys : C2_SameUpToCase(input.v, k)
        THEN \E k \in ToolKeys : C2_SameUpToCase(input.v, k) /\ output = Str(k)
        ELSE output = Undefined

\* ------------------------------------------------------------ loadConfig

CONFIG_FILENAME == ".ai-switch.json"

\* The file <cwd>/.ai-switch.json is in one of these states:
\*   absent      there is no such file;
\*   unreadable  it exists and reading it fails (a directory, no permission);
\*   vanishing   it exists when existsSync looks and is gone when
\*               readFileSync reads;
\*   invalid     it is read and its text is not JSON;
\*   json        it is read and its text is the JSON text of file.doc.
existsSync(f) == f.state # "absent"

Thrown(e) == [t |-> "thrown", v |-> e]

\* fs.readFileSync(configPath, "utf8") followed by JSON.parse(raw): the parsed
\* value, or what was thrown.
ReadAndParse(f) ==
    CASE f.state = "unreadable" -> Thrown("EACCES: permission denied, open")
      [] f.state = "vanishing"  -> Thrown("ENOENT: no such file or directory, open")
      [] f.state = "invalid"    -> Thrown("Unexpected token in JSON")
      [] OTHER                  -> f.doc

\* Whether reading property name of value throws (null has no properties).
PropThrows(value) == value.t \in {"null", "undefined"}

\* value[name] for a value that has properties: only an object parsed from
\* JSON has an own defaultTool or defaultFlags.
Prop(value, name) ==
    IF value.t = "object" /\ name \in DOMAIN value.v THEN value.v[name]
    ELSE Undefined

\* ensureStringArray(value: unknown): string[] | undefined
ensureStringArrayNoEvery(value) ==
    IF value.t # "array" THEN Undefined ELSE Arr(value.v)

ensureStringArray(value) ==
    IF value.t # "array" THEN Undefined
    ELSE IF \A i \in DOMAIN value.v : IsString(value.v[i])
         THEN Arr(value.v)
         ELSE Undefined

WarnUnknownTool(maybeTool) ==
    [text |-> "Ignoring unknown defaultTool: ", value |-> maybeTool.v]

WarnFlags ==
    [text |-> "Ignoring defaultFlags because it is not an array of strings."]

WarnFailed(message) ==
    [text |-> "Failed to load " \o CONFIG_FILENAME \o ": ", error |-> message]

\* logger?.warn(message): the messages the logger receives.
Warn(hasLogger, message) == IF hasLogger THEN <<message>> ELSE <<>>

\* The body of the try block once the document is parsed (parsed is not
\* null): the result and the warnings.
ValidateFields(parsed, hasLogger) ==
    LET maybeTool ==
            IF IsString(Prop(parsed, "defaultTool"))
            THEN Prop(parsed, "defaultTool") ELSE Undefined
        normalizedTool == normalizeToolKey(maybeTool)
        toolPart ==
            IF Truthy(normalizedTool) THEN "defaultTool" :> normalizedTool
            ELSE <<>>
        toolWarn ==
            IF ~Truthy(normalizedTool) /\ Truthy(maybeTool)
            THEN Warn(hasLogger, WarnUnknownTool(maybeTool)) ELSE <<>>
        flags == ensureStringArray(Prop(parsed, "defaultFlags"))
        flagsPart ==
            IF Truthy(flags) THEN "defaultFlags" :> flags ELSE <<>>
        flagsWarn ==
            IF ~Truthy(flags) /\ Prop(parsed, "defaultFlags") # Undefined
            THEN Warn(hasLogger, WarnFlags) ELSE <<>>
    IN  [value |-> Obj(flagsPart @@ toolPart), warnings |-> toolWarn \o flagsWarn]

\* loadConfig with its try block but no catch: what is thrown escapes.
loadConfigNoCatch(f, hasLogger) ==
    IF ~existsSync(f) THEN [value |-> Obj(<<>>), warnings |-> <<>>]
    ELSE LET parsed == ReadAndParse(f)
         IN  IF parsed.t = "thrown"
             THEN [value |-> parsed, warnings |-> <<>>]
             ELSE IF PropThrows(parsed)
             THEN [value |-> Thrown("Cannot read properties of null"),
                   warnings |-> <<>>]
             ELSE ValidateFields(parsed, hasLogger)

\* loadConfig(cwd, logger?): [value: what it returns, warnings: what the
\* logger receives].
loadConfig(f, hasLogger) ==
    IF ~existsSync(f) THEN [value |-> Obj(<<>>), warnings |-> <<>>]
    ELSE LET parsed == ReadAndParse(f)
         IN  IF parsed.t = "thrown"
             THEN [value |-> Obj(<<>>),
                   warnings |-> Warn(hasLogger, WarnFailed(parsed.v))]
             ELSE IF PropThrows(parsed)
             THEN [value |-> Obj(<<>>),
                   warnings |-> Warn(hasLogger,
                                     WarnFailed("Cannot read properties of null"))]
             ELSE ValidateFields(parsed, hasLogger)

\* --- documents

MaxFlags == 2

cursorName == <<"c","u","r","s","o","r">>
constructorName == <<"c","o","n","s","t","r","u","c","t","o","r">>
\* "--model"
flagModel == <<"-","-","m","o","d","e","l">>

FlagElems == {Str(flagModel), Str(<<>>), Num(123), Null, Arr(<<>>)}

FlagDocs ==
    {Arr(a) : a \in SeqsUpTo(FlagElems, MaxFlags)}
        \cup {Null, Num(0), Bool(FALSE), Str(<<>>), Str(flagModel), Obj(<<>>)}

ToolDocs ==
    {Null, Num(1), Bool(TRUE), Arr(<<Str(codexKey)>>), Obj(<<>>)}
        \cup {Str(s) : s \in {codexKey, <<"C","L","A","U","D","E">>,
                              <<"G","e","m","i","n","i">>, cursorName, <<>>,
                              constructorName,
                              <<"_","_","p","r","o","t","o","_","_">>,
                              <<"t","o","S","t","r","i","n","g">>}}

Absent == [t |-> "absent"]

\* The object with the given fields (Absent: no such key).
DocObject(tool, flags, extra) ==
    Obj( (IF tool # Absent THEN "defaultTool" :> tool ELSE <<>>)
      @@ (IF flags # Absent THEN "defaultFlags" :> flags ELSE <<>>)
      @@ (IF extra # Absent THEN "extra" :> extra ELSE <<>>) )

Docs ==
    {Null, Num(5), Bool(TRUE), Str(codexKey), Arr(<<>>), Arr(<<Str(flagModel)>>)}
        \cup {DocObject(t, f, x) : t \in ToolDocs \cup {Absent},
                                   f \in FlagDocs \cup {Absent},
                                   x \in {Absent, Num(1)}}

Files ==
    {[state |-> st] : st \in {"absent", "unreadable", "vanishing", "invalid"}}
        \cup {[state |-> "json", doc |-> d] : d \in Docs}

InitConfig ==
    /\ host = [platform |-> "linux", wslEnv |-> FALSE, procVersion |-> "linux"]
    /\ file \in Files
    /\ fn = "loadConfig"
    /\ input \in {[logger |-> b] : b \in BOOLEAN}
    /\ output = Pending
    /\ logged = <<>>
    /\ CliIdle

CallLoadConfig ==
    /\ fn = "loadConfig"
    /\ output = Pending
    /\ LET r == loadConfig(file, input.logger)
       IN  /\ output' = r.value
           /\ logged' = r.warnings
    /\ UNCHANGED <<host, file, fn, input, cliVars>>

SpecConfig == InitConfig /\ [][CallLoadConfig]_vars

Returned == fn = "loadConfig" /\ output # Pending

\* The field of the parsed document, Absent when there is no document, the
\* document is no object, or the object has no such key.
DocField(name) ==
    IF file.state = "json" /\ file.doc.t = "object" /\ name \in DOMAIN file.doc.v
    THEN file.doc.v[name] ELSE Absent

\* C3: every field present in the object loadConfig returns is valid:
\* defaultTool is one of the catalog keys codex, claude, gemini in lowercase,
\* defaultFlags is a sequence of strings, and there are no other keys.
C3_ReturnedFieldsValid ==
    Returned =>
        /\ output.t = "object"
        /\ DOMAIN output.v \subseteq {"defaultTool", "defaultFlags"}
        /\ "defaultTool" \in DOMAIN output.v =>
               \E k \in ToolKeys : output.v["defaultTool"] = Str(k)
        /\ "defaultFlags" \in DOMAIN output.v =>
               /\ output.v["defaultFlags"].t = "array"
               /\ \A i \in DOMAIN output.v["defaultFlags"].v :
                      output.v["defaultFlags"].v[i].t = "string"

\* C4: loadConfig never raises; an absent file gives {} and no warning; an
\* unreadable or vanishing file, text that is not JSON, and a document that
\* is null, a number or an array give {}; on a read or parse failure a given
\* logger receives exactly one warning, "Failed to load .ai-switch.json ...".
C4_NeverRaises ==
    Returned =>
        /\ output.t # "thrown"
        /\ file.state = "absent" => output = Obj(<<>>) /\ logged = <<>>
        /\ (\/ file.state \in {"unreadable", "vanishing", "invalid"}
            \/ (file.state = "json" /\ file.doc.t # "object"))
               => output = Obj(<<>>)
        /\ (file.state \in {"unreadable", "vanishing", "invalid"} /\ input.logger)
               => /\ Len(logged) = 1
                  /\ logged[1].text = "Failed to load .ai-switch.json: "
        /\ ~input.logger => logged = <<>>

C4_Witness ==
    /\ Returned
    /\ file.state = "vanishing"
    /\ input.logger
    /\ output = Obj(<<>>)
    /\ Len(logged) = 1

\* C5: whenever the document's defaultTool is a string that normalizeToolKey
\* does not accept (the empty string included), the logger receives
\* "Ignoring unknown defaultTool: <value>", defaultTool is omitted, and a
\* valid defaultFlags of the same document is still returned.
C5_UnknownToolWarned ==
    (/\ Returned
     /\ DocField("defaultTool").t = "string"
     /\ normalizeToolKey(DocField("defaultTool")) = Undefined)
        => /\ input.logger =>
                  \E i \in DOMAIN logged :
                      logged[i] = [text |-> "Ignoring unknown defaultTool: ",
                                   value |-> DocField("defaultTool").v]
           /\ "defaultTool" \notin DOMAIN output.v
           /\ (/\ DocField("defaultFlags").t = "array"
               /\ \A j \in DOMAIN DocField("defaultFlags").v :
                      DocField("defaultFlags").v[j].t = "string")
                  => /\ "defaultFlags" \in DOMAIN output.v
                     /\ output.v["defaultFlags"] = DocField("defaultFlags")

C6_IsStringArray(x) ==
    x.t = "array" /\ \A i \in DOMAIN x.v : x.v[i].t = "string"

C6_FlagWarnings ==
    {i \in DOMAIN logged :
        logged[i] = [text |-> "Ignoring defaultFlags because it is not an array of strings."]}

\* C6: defaultFlags is in the result if and only if the document's
\* defaultFlags is an array of strings (the empty array included), and then
\* it is the same sequence; a defaultFlags of any other shape is omitted and
\* the logger receives exactly the not-an-array-of-strings message; an absent
\* defaultFlags gets no warning.
C6_FlagsAcceptedIffStringArray ==
    Returned =>
        LET docFlags == DocField("defaultFlags")
        IN  /\ ("defaultFlags" \in DOMAIN output.v) <=> C6_IsStringArray(docFlags)
            /\ C6_IsStringArray(docFlags) =>
                   /\ Len(output.v["defaultFlags"].v) = Len(docFlags.v)
                   /\ \A i \in DOMAIN docFlags.v :
                          output.v["defaultFlags"].v[i] = docFlags.v[i]
            /\ (docFlags # Absent /\ ~C6_IsStringArray(docFlags) /\ input.logger)
                   => Cardinality(C6_FlagWarnings) = 1
            /\ (docFlags = Absent \/ C6_IsStringArray(docFlags))
                   => C6_FlagWarnings = {}

C6_Witness ==
    /\ Returned
    /\ input.logger
    /\ DocField("defaultFlags") = Arr(<<Str(flagModel), Num(123)>>)
    /\ "defaultFlags" \notin DOMAIN output.v
    /\ C6_FlagWarnings # {}

\* ------------------------------------------------------------ installers

\* isWSL(): the process runs on Linux and either WSL_DISTRO_NAME is set or
\* /proc/version is readable and mentions microsoft.
isWSL(h) ==
    IF h.platform # "linux" THEN FALSE
    ELSE IF h.wslEnv THEN TRUE
    ELSE h.procVersion = "microsoft"

Includes(seq, x) == \E i \in DOMAIN seq : seq[i] = x

\* isInstallerSupported(installer, platform) on host h
isInstallerSupported(installer, platform, h) ==
    IF "platforms" \notin DOMAIN installer \/ installer.platforms = <<>>
    THEN TRUE
    ELSE IF isWSL(h)
    THEN Includes(installer.platforms, "wsl") \/ Includes(installer.platforms, "linux")
    ELSE Includes(installer.platforms, platform)

CANCEL_CHOICE == [name |-> "Cancel", value |-> ""]

Choice(installer) ==
    [name |-> installer.label \o ": " \o installer.cmd, value |-> installer.cmd]

RECURSIVE FilterSupported(_, _, _)
FilterSupported(installers, platform, h) ==
    IF installers = <<>> THEN <<>>
    ELSE (IF isInstallerSupported(Head(installers), platform, h)
          THEN <<Head(installers)>> ELSE <<>>)
             \o FilterSupported(Tail(installers), platform, h)

\* getInstallerChoices that adds Cancel only to a non-empty list.
getInstallerChoicesBareWhenEmpty(tool, platform, h) ==
    LET kept == FilterSupported(tool.installers, platform, h)
        choices == [i \in DOMAIN kept |-> Choice(kept[i])]
    IN  IF choices = <<>> THEN <<>> ELSE choices \o <<CANCEL_CHOICE>>

\* getInstallerChoices(tool, platform) on host h
getInstallerChoices(tool, platform, h) ==
    LET kept == FilterSupported(tool.installers, platform, h)
        choices == [i \in DOMAIN kept |-> Choice(kept[i])]
    IN  choices \o <<CANCEL_CHOICE>>

\* --- tools, platforms and hosts to call it with

MaxInstallers == 2

InstallerPool ==
    { Installer("npm", "npm install -g tool"),
      InstallerOn("any", "sh install.sh", <<>>),
      InstallerOn("brew", "brew install tool", <<"darwin">>),
      InstallerOn("apt", "apt install tool", <<"linux">>),
      InstallerOn("wsl", "wsl-install tool", <<"wsl">>),
      InstallerOn("winget", "winget install tool", <<"win32", "darwin">>) }

\* The tool of the test suite that declares no yoloFlags, with any installers.
ExampleTool(installers) ==
    [bin |-> <<"e","x","a","m","p","l","e">>, pretty |-> "Example CLI",
     installers |-> installers]

ToolDefs ==
    {codexDef, claudeDef, geminiDef}
        \cup {ExampleTool(i) : i \in SeqsUpTo(InstallerPool, MaxInstallers)}

Platforms == {"darwin", "linux", "win32"}

\* /proc/version exists on Linux only.
Hosts ==
    {[platform |-> "linux", wslEnv |-> e, procVersion |-> v] :
         e \in BOOLEAN, v \in {"linux", "microsoft", "unreadable"}}
        \cup {[platform |-> p, wslEnv |-> e, procVersion |-> "unreadable"] :
                  p \in {"darwin", "win32"}, e \in BOOLEAN}

InitInstallers ==
    /\ host \in Hosts
    /\ file = [state |-> "absent"]
    /\ fn = "getInstallerChoices"
    /\ \E t \in ToolDefs, p \in Platforms : input = [tool |-> t, platform |-> p]
    /\ output = Pending
    /\ logged = <<>>
    /\ CliIdle

CallGetInstallerChoices ==
    /\ fn = "getInstallerChoices"
    /\ output = Pending
    /\ output' = Arr(getInstallerChoices(input.tool, input.platform, host))
    /\ UNCHANGED <<host, file, fn, input, logged, cliVars>>

SpecInstallers == InitInstallers /\ [][CallGetInstallerChoices]_vars

Chose == fn = "getInstallerChoices" /\ output # Pending

\* The installers at the indices of S, in increasing order of index.
RECURSIVE C7_AtIndices(_, _, _)
C7_AtIndices(installers, S, from) ==
    IF from > Len(installers) THEN <<>>
    ELSE (IF from \in S THEN <<installers[from]>> ELSE <<>>)
             \o C7_AtIndices(installers, S, from + 1)

\* C7: the result of getInstallerChoices is a subsequence of tool.installers
\* in catalog order, each mapped to {"<label>: <command>", command}, followed
\* by exactly one Cancel entry, which is the last element; when no installer
\* passes the filter the result is the single Cancel entry.
C7_SubsequenceThenCancel ==
    Chose =>
        LET res == output.v
            n == Len(res)
            installers == input.tool.installers
        IN  /\ n >= 1
            /\ res[n] = [name |-> "Cancel", value |-> ""]
            /\ Cardinality({i \in 1..n : res[i] = [name |-> "Cancel", value |-> ""]}) = 1
            /\ \E S \in SUBSET DOMAIN installers :
                   LET kept == C7_AtIndices(installers, S, 1)
                   IN  /\ Len(kept) = n - 1
                       /\ \A i \in 1..(n - 1) :
                              /\ res[i].name = kept[i].label \o ": " \o kept[i].cmd
                              /\ res[i].value = kept[i].cmd
            /\ (\A i \in DOMAIN installers :
                    ~isInstallerSupported(installers[i], input.platform, host))
                   => res = <<[name |-> "Cancel", value |-> ""]>>

C7_Witness ==
    /\ Chose
    /\ Len(input.tool.installers) = 2
    /\ Len(output.v) = 2
    /\ output.v[1].value = input.tool.installers[2].cmd

C7_WitnessEmpty ==
    /\ Chose
    /\ input.tool.installers # <<>>
    /\ output.v = <<CANCEL_CHOICE>>

C8_Applies(installer, platform) ==
    \/ "platforms" \notin DOMAIN installer
    \/ installer.platforms = <<>>
    \/ \E i \in DOMAIN installer.platforms : installer.platforms[i] = platform

\* C8: with an explicit platform, getInstallerChoices keeps exactly the
\* installers whose platform set is absent, empty or contains that platform,
\* whatever the host it runs on (WSL or not).
C8_FunctionOfArguments ==
    Chose =>
        LET installers == input.tool.installers
            S == {i \in DOMAIN installers : C8_Applies(installers[i], input.platform)}
            kept == C7_AtIndices(installers, S, 1)
        IN  /\ Len(output.v) = Len(kept) + 1
            /\ \A i \in DOMAIN kept : output.v[i].value = kept[i].cmd

\* ------------------------------------------------------------ passthroughArgs

dashdash == <<"-","-">>

\* Array.prototype.indexOf: the 0-based index of the first element equal to
\* x, or -1.
RECURSIVE indexOfFrom(_, _, _)
indexOfFrom(a, x, i) ==
    IF i > Len(a) THEN -1
    ELSE IF a[i] = x THEN i - 1
    ELSE indexOfFrom(a, x, i + 1)

indexOf(a, x) == indexOfFrom(a, x, 1)

\* Array.prototype.lastIndexOf
RECURSIVE lastIndexOfFrom(_, _, _)
lastIndexOfFrom(a, x, i) ==
    IF i < 1 THEN -1
    ELSE IF a[i] = x THEN i - 1
    ELSE lastIndexOfFrom(a, x, i - 1)

\* Array.prototype.slice(start) for 0 <= start: a copy, a is left as it is.
slice(a, start) == SubSeq(a, start + 1, Len(a))

\* passthroughArgs that splits at the last "--".
passthroughArgsLast(argv) ==
    LET idx == lastIndexOfFrom(argv, dashdash, Len(argv))
    IN  [result |-> IF idx >= 0 THEN slice(argv, idx + 1) ELSE <<>>,
         argv |-> argv]

\* passthroughArgs(argv): what it returns, and argv after the call.
passthroughArgs(argv) ==
    LET idx == indexOf(argv, dashdash)
    IN  [result |-> IF idx >= 0 THEN slice(argv, idx + 1) ELSE <<>>,
         argv |-> argv]

MaxArgv == 4

\* "--help"
wordHelp == <<"-","-","h","e","l","p">>
\* "a b"
wordSpaced == <<"a"," ","b">>

ArgvWords == {dashdash, wordHelp, wordSpaced}

InitPassthrough ==
    /\ Idle
    /\ fn = "passthroughArgs"
    /\ \E a \in SeqsUpTo(ArgvWords, MaxArgv) : input = [argv |-> a]
    /\ output = Pending

CallPassthroughArgs ==
    /\ fn = "passthroughArgs"
    /\ output = Pending
    /\ LET r == passthroughArgs(input.argv)
       IN  output' = [t |-> "array", v |-> r.result, argv |-> r.argv]
    /\ UNCHANGED <<host, file, fn, input, logged, cliVars>>

SpecPassthrough == InitPassthrough /\ [][CallPassthroughArgs]_vars

Split == fn = "passthroughArgs" /\ output # Pending

\* C9: passthroughArgs returns exactly the suffix of argv strictly after the
\* first "--", later "--" elements kept; the empty sequence when argv has no
\* "--" or the first "--" is its last element; argv is not modified.
C9_SuffixAfterFirstDelimiter ==
    Split =>
        LET argv == input.argv
            hits == {i \in DOMAIN argv : argv[i] = <<"-","-">>}
        IN  /\ output.argv = argv
            /\ hits = {} => output.v = <<>>
            /\ hits # {} =>
                   LET first == CHOOSE i \in hits : \A j \in hits : i <= j
                   IN  /\ Len(output.v) = Len(argv) - first
                       /\ \A k \in 1..(Len(argv) - first) :
                              output.v[k] = argv[first + k]
                       /\ first = Len(argv) => output.v = <<>>

C9_Witness ==
    /\ Split
    /\ input.argv = <<wordHelp, dashdash, wordSpaced, dashdash>>
    /\ output.v = <<wordSpaced, dashdash>>

\* ------------------------------------------------------------ the CLI

\* selectYoloFlag that takes the last declared flag.
selectYoloFlagLast(tool) ==
    LET flags == IF "yoloFlags" \in DOMAIN tool THEN tool.yoloFlags ELSE <<>>
    IN  IF flags = <<>> THEN Undefined ELSE Str(flags[Len(flags)])

\* selectYoloFlag(tool): const [first] = tool.yoloFlags ?? []
selectYoloFlag(tool) ==
    LET flags == IF "yoloFlags" \in DOMAIN tool THEN tool.yoloFlags ELSE <<>>
    IN  IF flags = <<>> THEN Undefined ELSE Str(flags[1])

\* isInstalled(bin): which(bin) resolves or rejects; which rejects for a
\* tool object that has no bin.
isInstalled(tool, found) == "bin" \in DOMAIN tool /\ found

\* resolveToolFromInput(toolArg, config): the key, Undefined (ask the user),
\* or Thrown for console.error + process.exit(1).
resolveToolFromInput(toolArg, cfg) ==
    IF Truthy(toolArg)
    THEN LET normalized == normalizeToolKey(toolArg)
         IN  IF ~Truthy(normalized) THEN Thrown("exit 1") ELSE normalized
    ELSE IF "defaultTool" \in DOMAIN cfg /\ Truthy(cfg["defaultTool"])
    THEN cfg["defaultTool"]
    ELSE Undefined

\* requireToolKey(tool): the key, or Thrown for the Error it throws.
requireToolKey(tool) ==
    IF ~Truthy(tool) THEN Thrown("Tool key is required") ELSE tool

\* The args and the command string that launch builds.
LaunchArgs(tool, yolo, cfg, av) ==
    LET passthrough == passthroughArgs(av).result
        defaultFlags ==
            IF "defaultFlags" \in DOMAIN cfg THEN cfg["defaultFlags"].v ELSE <<>>
        yoloFlag == IF yolo THEN selectYoloFlag(tool) ELSE Undefined
    IN  (IF Truthy(yoloFlag) THEN <<yoloFlag.v>> ELSE <<>>)
            \o [i \in DOMAIN defaultFlags |-> defaultFlags[i].v]
            \o passthrough

\* formatShellCommand(tool.bin, args); for a tool object with no bin the first
\* word is undefined, which quoteArg passes through and join renders empty.
CommandString(tool, args) ==
    IF "bin" \in DOMAIN tool THEN formatShellCommand(tool.bin, args)
    ELSE JoinSpace(<< <<>> >> \o [i \in DOMAIN args |-> quoteArg(args[i])])

\* --- command lines

MaxPassthrough == 2

wordNode == <<"n","o","d","e">>
wordAi == <<"a","i">>
wordUse == <<"u","s","e">>
wordYolo == <<"y","o","l","o">>
wordDryRun == <<"-","-","d","r","y","-","r","u","n">>

\* What the user may type as the tool.
ToolWords ==
    {codexKey, <<"C","l","a","u","d","e">>, cursorName, constructorName, <<>>}

PassthroughWords == {dashdash, wordHelp, wordSpaced}

\* Nothing, or "--" and the words after it.
Tails ==
    {<<>>} \cup {<<dashdash>> \o w : w \in SeqsUpTo(PassthroughWords, MaxPassthrough)}

\* commander: --dry-run is an option of the program; the first operand of
\* the command is its tool argument, and "--" ends the options, so the
\* words after it are operands too.
Operands(toolWord, tail) ==
    toolWord \o (IF tail = <<>> THEN <<>> ELSE Tail(tail))

CommandLine(dry, cmd, toolWord, tail) ==
    [argv |-> <<wordNode, wordAi>> \o (IF dry THEN <<wordDryRun>> ELSE <<>>)
                  \o <<cmd>> \o toolWord \o tail,
     opts |-> [command |-> cmd,
               toolInput |-> IF Operands(toolWord, tail) = <<>> THEN Undefined
                             ELSE Str(Operands(toolWord, tail)[1]),
               dryRun |-> dry]]

\* yolo requires its tool argument: without one commander ends the run
\* before the action is called.
CommandLines ==
    {cl \in {CommandLine(dry, cmd, tw, tail) :
                 dry \in BOOLEAN, cmd \in {wordUse, wordYolo},
                 tw \in {<<>>} \cup {<<w>> : w \in ToolWords}, tail \in Tails} :
        cl.opts.command = wordYolo => cl.opts.toolInput # Undefined}

CliFiles ==
    {[state |-> "absent"], [state |-> "invalid"]}
        \cup {[state |-> "json", doc |-> d] :
                 d \in { DocObject(Str(geminiKey), Absent, Absent),
                         DocObject(Str(<<"C","L","A","U","D","E">>),
                                   Arr(<<Str(flagModel), Str(wordSpaced)>>), Absent),
                         DocObject(Str(cursorName), Arr(<<Str(dashdash)>>), Absent),
                         DocObject(Str(constructorName), Arr(<<Num(123)>>), Absent) }}

CliHosts ==
    { [platform |-> "linux", wslEnv |-> FALSE, procVersion |-> "linux"],
      [platform |-> "linux", wslEnv |-> TRUE, procVersion |-> "microsoft"],
      [platform |-> "darwin", wslEnv |-> FALSE, procVersion |-> "unreadable"] }

Init ==
    /\ host \in CliHosts
    /\ file \in CliFiles
    /\ fn = "main"
    /\ input = <<>>
    /\ output = Pending
    /\ logged = <<>>
    /\ pc = "start"
    /\ \E cl \in CommandLines : processArgv = cl.argv /\ opts = cl.opts
    /\ onPath \in BOOLEAN
    /\ config = <<>>
    /\ toolKey = <<>>
    /\ promptChoices = <<>>
    /\ install = ""
    /\ cmdline = Pending
    /\ executed = <<>>
    /\ exitCode = -1

\* process.exit(code)
Exit(code) == pc' = "exited" /\ exitCode' = code

\* An exception no handler catches: the promise of the action rejects and
\* node ends the process with code 1.
Crash == pc' = "crashed" /\ exitCode' = 1

\* runUseCommand up to its first await: load the config, resolve the tool.
RunUseCommand ==
    /\ pc = "start"
    /\ opts.command = wordUse
    /\ LET r == loadConfig(file, TRUE)
           resolved == resolveToolFromInput(opts.toolInput, r.value.v)
       IN  /\ config' = r.value.v
           /\ logged' = r.warnings
           /\ CASE resolved.t = "thrown" -> Exit(1) /\ UNCHANGED toolKey
                [] resolved.t = "undefined" ->
                       pc' = "pick" /\ UNCHANGED <<toolKey, exitCode>>
                [] OTHER ->
                       pc' = "ensure" /\ toolKey' = resolved.v /\ UNCHANGED exitCode
    /\ UNCHANGED <<host, file, fn, input, output, processArgv, opts, onPath, promptChoices,
                   install, cmdline, executed>>

\* runYoloCommand up to its first await.
RunYoloCommand ==
    /\ pc = "start"
    /\ opts.command = wordYolo
    /\ LET r == loadConfig(file, TRUE)
           required == requireToolKey(normalizeToolKey(opts.toolInput))
       IN  /\ config' = r.value.v
           /\ logged' = r.warnings
           /\ IF required.t = "thrown"
              THEN Crash /\ UNCHANGED toolKey
              ELSE pc' = "ensure" /\ toolKey' = required.v /\ UNCHANGED exitCode
    /\ UNCHANGED <<host, file, fn, input, output, processArgv, opts, onPath, promptChoices,
                   install, cmdline, executed>>

\* The picker of runUseCommand answers: one of Object.keys(TOOLS).
PickTool ==
    /\ pc = "pick"
    /\ \E picked \in {codexKey, claudeKey, geminiKey} :
           LET required == requireToolKey(normalizeToolKey(Str(picked)))
           IN  IF required.t = "thrown"
               THEN Crash /\ UNCHANGED toolKey
               ELSE pc' = "ensure" /\ toolKey' = required.v /\ UNCHANGED exitCode
    /\ UNCHANGED <<host, file, fn, input, output, logged, processArgv, opts, onPath,
                   config, promptChoices, install, cmdline, executed>>

\* ensureInstalled up to the installer prompt.
EnsureInstalled ==
    /\ pc = "ensure"
    /\ LET tool == getToolDefinition(toolKey)
       IN  IF isInstalled(tool, onPath) \/ opts.dryRun
           THEN pc' = "launch" /\ UNCHANGED <<promptChoices, exitCode>>
           ELSE IF "installers" \notin DOMAIN tool
           THEN Crash /\ UNCHANGED promptChoices
           ELSE /\ promptChoices' = getInstallerChoices(tool, host.platform, host)
                /\ pc' = "prompt"
                /\ UNCHANGED exitCode
    /\ UNCHANGED <<host, file, fn, input, output, logged, processArgv, opts, onPath,
                   config, toolKey, install, cmdline, executed>>

\* The installer prompt answers; Cancel (the empty value) ends the run.
AnswerInstallPrompt ==
    /\ pc = "prompt"
    /\ \E i \in DOMAIN promptChoices :
           IF promptChoices[i].value = ""
           THEN Exit(1) /\ UNCHANGED install
           ELSE pc' = "install" /\ install' = promptChoices[i].value /\ UNCHANGED exitCode
    /\ UNCHANGED <<host, file, fn, input, output, logged, processArgv, opts, onPath,
                   config, toolKey, promptChoices, cmdline, executed>>

\* ensureInstalled that returns true whether or not the installer succeeded.
RunInstallerIgnoringFailure ==
    /\ pc = "install"
    /\ \E ok \in BOOLEAN :
           /\ executed' = Append(executed,
                                 [kind |-> "shell", cmd |-> install, ok |-> ok])
           /\ pc' = "launch"
           /\ UNCHANGED exitCode
    /\ UNCHANGED <<host, file, fn, input, output, logged, processArgv, opts, onPath,
                   config, toolKey, promptChoices, install, cmdline>>

\* execaCommand(install) runs and succeeds or fails (ok records which).
RunInstaller ==
    /\ pc = "install"
    /\ \E ok \in BOOLEAN :
           /\ executed' = Append(executed,
                                 [kind |-> "shell", cmd |-> install, ok |-> ok])
           /\ IF ok THEN pc' = "launch" /\ UNCHANGED exitCode ELSE Exit(1)
    /\ UNCHANGED <<host, file, fn, input, output, logged, processArgv, opts, onPath,
                   config, toolKey, promptChoices, install, cmdline>>

\* launch without its early return under --dry-run.
LaunchAlwaysRuns ==
    /\ pc = "launch"
    /\ LET tool == getToolDefinition(toolKey)
           args == LaunchArgs(tool, opts.command = wordYolo, config, processArgv)
           bin == IF "bin" \in DOMAIN tool THEN Str(tool.bin) ELSE Undefined
       IN  /\ cmdline' = [t |-> "cmdline", bin |-> bin, args |-> args,
                          text |-> CommandString(tool, args)]
           /\ executed' = Append(executed,
                                 [kind |-> "exec", bin |-> bin, args |-> args])
           /\ pc' = "running"
           /\ UNCHANGED exitCode
    /\ UNCHANGED <<host, file, fn, input, output, logged, processArgv, opts, onPath,
                   config, toolKey, promptChoices, install>>

\* launch up to its await: build and print the command; under --dry-run
\* return, otherwise start the tool and wait for it.
Launch ==
    /\ pc = "launch"
    /\ LET tool == getToolDefinition(toolKey)
           args == LaunchArgs(tool, opts.command = wordYolo, config, processArgv)
           bin == IF "bin" \in DOMAIN tool THEN Str(tool.bin) ELSE Undefined
       IN  /\ cmdline' = [t |-> "cmdline", bin |-> bin, args |-> args,
                          text |-> CommandString(tool, args)]
           /\ IF opts.dryRun
              THEN pc' = "done" /\ exitCode' = 0 /\ UNCHANGED executed
              ELSE /\ executed' = Append(executed,
                                         [kind |-> "exec", bin |-> bin, args |-> args])
                   /\ pc' = "running"
                   /\ UNCHANGED exitCode
    /\ UNCHANGED <<host, file, fn, input, output, logged, processArgv, opts, onPath,
                   config, toolKey, promptChoices, install>>

\* Exit codes a tool may end with: every exit status of a process.
ToolExitCodes == 0..255

\* launch after its await, in a later turn. With reject: false execa gives
\* a result: process.exit(result.exitCode ?? 0), where the exit code is the
\* tool's own, or missing when the tool could not be started or was ended
\* by a signal; an exception of execa goes to the catch: process.exit(1).
ToolEnded ==
    /\ pc = "running"
    /\ \/ \E code \in ToolExitCodes : Exit(code)
       \/ Exit(0)
       \/ Exit(1)
    /\ UNCHANGED <<host, file, fn, input, output, logged, processArgv, opts, onPath,
                   config, toolKey, promptChoices, install, cmdline, executed>>

Next ==
    \/ RunUseCommand
    \/ RunYoloCommand
    \/ PickTool
    \/ EnsureInstalled
    \/ AnswerInstallPrompt
    \/ RunInstaller
    \/ Launch
    \/ ToolEnded

Spec == Init /\ [][Next]_vars

\* The tool's declared fast-mode flags (none for a definition without them).
C10_FlagList ==
    IF "yoloFlags" \in DOMAIN TOOLS(toolKey) THEN TOOLS(toolKey).yoloFlags ELSE <<>>

C10_ConfigFlags ==
    IF "defaultFlags" \in DOMAIN config THEN config["defaultFlags"].v ELSE <<>>

\* The index of the first "--" of processArgv (0 when there is none).
C10_FirstDelimiter ==
    IF \E i \in DOMAIN processArgv : processArgv[i] = <<"-","-">>
    THEN CHOOSE i \in DOMAIN processArgv :
             processArgv[i] = <<"-","-">> /\ \A j \in 1..(i - 1) : processArgv[j] # <<"-","-">>
    ELSE Len(processArgv)

\* C10: the argument vector the CLI displays and launches is: under yolo only,
\* the first entry of the tool's fast-mode flag list, once, omitted when the
\* list is empty; then the config's defaultFlags in order; then the
\* pass-through arguments in order. Under use no fast-mode flag is added.
C10_ArgumentVector ==
    cmdline # Pending =>
        LET args == cmdline.args
            y == IF opts.command = wordYolo /\ C10_FlagList # <<>> THEN 1 ELSE 0
            nf == Len(C10_ConfigFlags)
            np == Len(processArgv) - C10_FirstDelimiter
        IN  /\ Len(args) = y + nf + np
            /\ y = 1 => args[1] = C10_FlagList[1]
            /\ \A i \in 1..nf : args[y + i] = C10_ConfigFlags[i].v
            /\ \A j \in 1..np : args[y + nf + j] = processArgv[C10_FirstDelimiter + j]
            /\ \A e \in DOMAIN executed :
                   executed[e].kind = "exec" => executed[e].args = args

C10_Witness ==
    /\ pc = "exited"
    /\ opts.command = wordYolo
    /\ toolKey = claudeKey
    /\ cmdline # Pending
    /\ cmdline.args = <<flagSkip, flagModel, wordSpaced, wordHelp, dashdash>>
    /\ \E e \in DOMAIN executed : executed[e].kind = "exec"

\* C11: with --dry-run, on every path through use and yolo, no external
\* command is executed (no installer command, no tool) and no installer
\* prompt is shown.
C11_DryRunExecutesNothing ==
    (pc # "idle" /\ opts.dryRun) =>
        /\ executed = <<>>
        /\ pc \notin {"prompt", "install"}
        /\ promptChoices = <<>>
        /\ install = ""

\* A dry run of a tool that is not installed, through to the printed command.
C11_Witness ==
    /\ opts.dryRun
    /\ ~onPath
    /\ pc = "done"
    /\ cmdline # Pending
    /\ executed = <<>>

\* C12: whatever .ai-switch.json holds, the use command never ends in an
\* uncaught exception caused by the config: a defaultTool the loader returns
\* is a key whose catalog definition has a bin and an installers list, so a
\* run that takes its tool from the config cannot fail on a missing
\* definition.
C12_ConfigNeverCrashesUse ==
    (pc \notin {"idle", "start"} /\ opts.command = wordUse) =>
        /\ "defaultTool" \in DOMAIN config =>
               {"bin", "installers"} \subseteq DOMAIN TOOLS(config["defaultTool"].v)
        /\ ~Truthy(opts.toolInput) => pc # "crashed"

\* A tool is named on the command line (an empty argument names none).
C13_Named == opts.toolInput.t = "string" /\ opts.toolInput.v # <<>>

\* The catalog keys the command-line name spells, in any case of letters.
C13_NamedKeys ==
    {k \in {codexKey, claudeKey, geminiKey} : C2_SameUpToCase(opts.toolInput.v, k)}

\* C13: in the use command a tool named on the command line wins over the
\* config's defaultTool; the defaultTool is used only when no tool argument is
\* given; the picker is shown only when neither exists. A command-line name
\* that is not a catalog key ends the run with exit code 1: no fallback to
\* the config default, no install, no launch.
C13_ResolutionPrecedence ==
    (pc \notin {"idle", "start"} /\ opts.command = wordUse) =>
        /\ (C13_Named /\ C13_NamedKeys # {}) => toolKey \in C13_NamedKeys
        /\ (~C13_Named /\ "defaultTool" \in DOMAIN config)
               => toolKey = config["defaultTool"].v
        /\ pc = "pick" => (~C13_Named /\ "defaultTool" \notin DOMAIN config)
        /\ (C13_Named /\ C13_NamedKeys = {}) =>
               /\ pc = "exited"
               /\ exitCode = 1
               /\ toolKey = <<>>
               /\ promptChoices = <<>>
               /\ executed = <<>>
               /\ cmdline = Pending

\* Word splitting of a POSIX shell over text[i..], for text of ordinary
\* characters, spaces, single quotes and backslashes: inside single quotes
\* every character is literal up to the closing quote; outside, a backslash
\* makes the next character literal, a quote opens a quoted part of the
\* current word (so '' is an empty word), and a space ends the word.
RECURSIVE C14_Split(_, _, _, _, _, _, _)
C14_Split(text, i, words, cur, inWord, inQuote, escaped) ==
    IF i > Len(text)
    THEN (IF inWord THEN Append(words, cur) ELSE words)
    ELSE LET c == text[i]
         IN  IF inQuote
             THEN IF c = "'"
                  THEN C14_Split(text, i + 1, words, cur, TRUE, FALSE, FALSE)
                  ELSE C14_Split(text, i + 1, words, Append(cur, c), TRUE, TRUE, FALSE)
             ELSE IF escaped
             THEN C14_Split(text, i + 1, words, Append(cur, c), TRUE, FALSE, FALSE)
             ELSE IF c = "\\"
             THEN C14_Split(text, i + 1, words, cur, TRUE, FALSE, TRUE)
             ELSE IF c = "'"
             THEN C14_Split(text, i + 1, words, cur, TRUE, TRUE, FALSE)
             ELSE IF c = " "
             THEN C14_Split(text, i + 1,
                            IF inWord THEN Append(words, cur) ELSE words,
                            <<>>, FALSE, FALSE, FALSE)
             ELSE C14_Split(text, i + 1, words, Append(cur, c), TRUE, FALSE, FALSE)

C14_ShellWords(text) == C14_Split(text, 1, <<>>, <<>>, FALSE, FALSE, FALSE)

\* C14: splitting the string formatShellCommand returns into words by the
\* shell's single-quote rules yields exactly [executable, arg1, ..., argN],
\* every embedded single quote and every empty argument preserved.
C14_RoundTrip ==
    (fn = "formatShellCommand" /\ output # Pending)
        => C14_ShellWords(output.v) = <<input.command>> \o input.args

C15_Shells == {e \in DOMAIN executed : executed[e].kind = "shell"}
C15_Execs == {e \in DOMAIN executed : executed[e].kind = "exec"}

\* The user answered the installer prompt with Cancel.
C15_Cancelled == promptChoices # <<>> /\ pc # "prompt" /\ install = ""

\* C15: in a non-dry run of use or yolo the tool is spawned only after it was
\* found on PATH or an installer command the user chose completed
\* successfully; after Cancel no installer command is executed; after Cancel
\* or a failed install the tool is never launched and the process exits with
\* code 1; at most one installer command is executed per run.
C15_SpawnOnlyWhenReady ==
    (pc # "idle" /\ ~opts.dryRun) =>
        /\ Cardinality(C15_Shells) <= 1
        /\ \A s \in C15_Shells :
               /\ executed[s].cmd = install
               /\ \E i \in DOMAIN promptChoices :
                      promptChoices[i].value = executed[s].cmd
               /\ executed[s].cmd # ""
        /\ \A e \in C15_Execs :
               \/ (onPath /\ "bin" \in DOMAIN TOOLS(toolKey) /\ C15_Shells = {})
               \/ \E s \in C15_Shells : s < e /\ executed[s].ok
        /\ C15_Cancelled =>
               /\ executed = <<>>
               /\ pc = "exited"
               /\ exitCode = 1
        /\ \A s \in C15_Shells :
               (~executed[s].ok) =>
                   /\ C15_Execs = {}
                   /\ pc = "exited"
                   /\ exitCode = 1

\* Not installed, the user picks an installer, it succeeds, the tool runs.
C15_Witness ==
    /\ ~opts.dryRun
    /\ ~onPath
    /\ pc = "exited"
    /\ Len(executed) = 2
    /\ executed[1].kind = "shell" /\ executed[1].ok
    /\ executed[2].kind = "exec"

\* Not installed and the user picks Cancel.
C15_WitnessCancel ==
    /\ ~opts.dryRun
    /\ C15_Cancelled
    /\ exitCode = 1

====
